---------------------------- MODULE Spec2Model ----------------------------
(***************************************************************************)
(* A model of the data-provider module services/finmind.ts of the stock    *)
(* dashboard: the cached stock list (getStockList), identifier resolution  *)
(* (resolveStockId), name lookup (fetchStockName) and the four             *)
(* fetch-and-derive operations.                                            *)
(*                                                                         *)
(* Every invocation of an exported async function occupies a slot.  One    *)
(* action is one run of the JavaScript event loop between two awaits: the  *)
(* synchronous part of a call, or the continuation after an awaited        *)
(* promise settles.  The upstream HTTP service is the environment: how a   *)
(* fetch or a res.json() settles is an input of the settling action.       *)
(*                                                                         *)
(* The App component (handleSearch, refreshMarket, the back button) and    *)
(* getGeminiAnalysis are modelled on top of it: each handleSearch or       *)
(* refreshMarket invocation occupies a run, its awaited data-provider      *)
(* calls settle with the values the operators of the first part return,    *)
(* and the state updates a continuation makes before its next await are    *)
(* one step (React applies them in one render).  A continuation whose      *)
(* promise is already resolved runs before any other task.                 *)
(*                                                                         *)
(* Strings are sequences of one-character strings.  Prices are integers    *)
(* in hundredths (a close of 105.00 is 10500); a derived change is an      *)
(* integer in hundredths too, and a derived percent is a Number that is    *)
(* either finite, with its value in hundredths, or NaN or +-Infinity.      *)
(***************************************************************************)
EXTENDS Integers, Sequences, FiniteSets, TLC

VARIABLES
    stockListCache, \* finmind.ts:11   <<>> is null, <<l>> is the array l
    op,             \* per slot: the exported function running in it
    arg,            \* per slot: its argument (query or stockId)
    pc,             \* per slot: the await the function is suspended at
    lpc,            \* per slot: position of its getStockList() call
    list,           \* per slot: the array getStockList() resolved to
    held,           \* per slot: json / priceJson, the parsed response body
    result,         \* per slot: the value the returned promise settled with
    nfetch,         \* history: list requests this call has issued
    cache0,         \* history: stockListCache when the call started
    failed,         \* history: which kinds of HTTP call failed in this call
    assigns         \* history: assignments to stockListCache so far

\* the state of the App component, part_001:69-79, and of its handler runs
VARIABLES
    view,             \* part_001:69   "home", "detail" or "loading"
    marketIndex,      \* part_001:70   <<>> is null
    fundFlow,         \* part_001:71   <<>> is null
    hotStocks,        \* part_001:72   the identifiers of the hot stocks held
    searchHistory,    \* part_001:73   sequence of StockInfo objects
    selectedStock,    \* part_001:74   <<>> is null
    analysis,         \* part_001:75   <<>> is null
    isLoading,        \* part_001:77
    searchError,      \* part_001:78   "" or one of the four messages
    connectionStatus, \* part_001:79
    spc,              \* per handleSearch run: the await it is suspended at
    squery,           \* per handleSearch run: its argument query
    sstockId,         \* per handleSearch run: the local stockId
    sdata,            \* per handleSearch run: the local data
    sinst,            \* per handleSearch run: the local inst
    sname,            \* per handleSearch run: what fetchStockName resolved to
    rpc,              \* per refreshMarket run: the await it is suspended at
    rnames,           \* per refreshMarket run: what fetchStockName resolved
                      \* to in each of its fetchStockData calls
    abandoned,        \* list requests in flight whose fetchStockData call
                      \* has settled already
    trace,            \* history: per handleSearch run in flight, the calls issued
    rfailed,          \* history: per refreshMarket run, the calls that failed
    newest,           \* history: the run started last while in flight, else 0
    newestOk,         \* history: the stock of the search started last, once
                      \* it has succeeded; <<>> before
    lastStep          \* history: the handler whose run ended in the last step,
                      \* how it ended, and which of its calls had failed

dataVars == <<stockListCache, op, arg, pc, lpc, list, held, result,
              nfetch, cache0, failed, assigns>>

\* the slots of the data-provider model, which the App model leaves idle
slotVars == <<op, arg, pc, lpc, list, held, result, nfetch, cache0, failed>>

appVars == <<view, marketIndex, fundFlow, hotStocks, searchHistory,
             selectedStock, analysis, isLoading, searchError,
             connectionStatus, spc, squery, sstockId, sdata, sinst, sname,
             rpc, rnames, abandoned, trace, rfailed, newest, newestOk,
             lastStep>>

vars == <<dataVars, appVars>>

---------------------------------------------------------------------------
(* Bounds of the model *)

MaxCalls == 2
MaxQueryLen == 3
MaxListLen == 2
MaxLen == 3
MaxRows == 3
MaxClose == 3
MaxSearches == 2    \* handleSearch runs in flight at once
MaxRefreshes == 1   \* refreshMarket runs in flight at once
MaxAbandoned == 1   \* list requests in flight that no call waits for

\* lastStep when the last step ended no run
NoEnd == <<"none", "none", {}>>

Slots == 1..MaxCalls
Runs == 1..MaxSearches
Refreshes == 1..MaxRefreshes

SeqsUpTo(S, n) == UNION {[1..k -> S] : k \in 0..n}

---------------------------------------------------------------------------
(* JavaScript values *)

Null == <<>>
Some(x) == <<x>>

\* String.prototype.trim: strip whitespace from both ends
Whitespace == {" "}
Digits == {"0", "1", "2", "3", "4", "5", "6", "7", "8", "9"}

RECURSIVE TrimStart(_)
TrimStart(s) ==
    IF s # <<>> /\ Head(s) \in Whitespace THEN TrimStart(Tail(s)) ELSE s

RECURSIVE TrimEnd(_)
TrimEnd(s) ==
    IF s # <<>> /\ s[Len(s)] \in Whitespace
    THEN TrimEnd(SubSeq(s, 1, Len(s) - 1)) ELSE s

Trim(s) == TrimEnd(TrimStart(s))

\* /^\d+$/.test(s)
IsDigits_SingleDigit(s) == Len(s) = 1 /\ s[1] \in Digits
IsDigits(s) == Len(s) > 0 /\ \A i \in 1..Len(s) : s[i] \in Digits

\* String.prototype.includes
Includes(s, t) ==
    \E i \in 0..(Len(s) - Len(t)) : SubSeq(s, i + 1, i + Len(t)) = t

\* Array.prototype.find, as the index of the element found (0: undefined)
FirstIndex(l, hits) ==
    IF hits \cap (1..Len(l)) = {} THEN 0
    ELSE CHOOSE i \in hits \cap (1..Len(l)) :
             \A j \in hits \cap (1..Len(l)) : i <= j

---------------------------------------------------------------------------
(* Identifier resolution: the part of resolveStockId after the list *)

ExactHits_NameOnly(l, trimmed) ==
    {i \in 1..Len(l) : l[i].stock_name = trimmed}
ExactHits(l, trimmed) ==
    {i \in 1..Len(l) : l[i].stock_name = trimmed \/ l[i].stock_id = trimmed}

FuzzyHits_Last(l, trimmed) ==
    LET hits == {i \in 1..Len(l) : Includes(l[i].stock_name, trimmed)}
    IN  {i \in hits : \A j \in hits : j <= i}
FuzzyHits(l, trimmed) ==
    {i \in 1..Len(l) : Includes(l[i].stock_name, trimmed)}

NullResult == [kind |-> "null", val |-> <<>>]
StringResult(s) == [kind |-> "string", val |-> s]
Pending == [kind |-> "pending", val |-> <<>>]

\* an exception left the function: its promise is rejected
Rejected == [kind |-> "rejected", val |-> <<>>]

ResolveInList_NoGuard(l, trimmed) ==
    LET match == FirstIndex(l, ExactHits(l, trimmed))
        fuzzyMatch == FirstIndex(l, FuzzyHits(l, trimmed))
    IN  IF match # 0 THEN StringResult(l[match].stock_id)
        ELSE IF fuzzyMatch # 0 THEN StringResult(l[fuzzyMatch].stock_id)
        ELSE Rejected
ResolveInList(l, trimmed) ==
    LET match == FirstIndex(l, ExactHits(l, trimmed))
        fuzzyMatch == FirstIndex(l, FuzzyHits(l, trimmed))
    IN  IF match # 0 THEN StringResult(l[match].stock_id)
        ELSE IF fuzzyMatch # 0 THEN StringResult(l[fuzzyMatch].stock_id)
        ELSE NullResult

\* fetchStockName after the list: the name of the entry, else the id itself
NameInList(l, stockId) ==
    LET match == FirstIndex(l, {i \in 1..Len(l) : l[i].stock_id = stockId})
    IN  IF match # 0 THEN StringResult(l[match].stock_name)
        ELSE StringResult(stockId)

---------------------------------------------------------------------------
(* Numbers.  A JavaScript Number is an IEEE 754 double: every division,
   subtraction and multiplication gives the double nearest to the exact
   result (a tie to the even significand), and toFixed(2) rounds the exact
   value of the double it is given.  A significand has 53 binary digits:
   naturals of that size are sequences of digits in base 2^15, lowest
   first, with no zero at the high end. *)

---------------------------------------------------------------------------
(* Numbers.  A JavaScript Number is an IEEE 754 double: every division,
   subtraction and multiplication gives the double nearest to the exact
   result (a tie to the even significand), and toFixed(2) rounds the exact
   value of the double it is given.  Naturals that the integers of the
   model checker cannot hold are sequences of digits in base 2^15, lowest
   first, with no zero at the high end. *)

Abs(n) == IF n < 0 THEN -n ELSE n

Base == 32768

RECURSIVE Big(_)
Big(n) == IF n = 0 THEN <<>> ELSE <<n % Base>> \o Big(n \div Base)

RECURSIVE Small(_)
Small(x) == IF x = <<>> THEN 0 ELSE Head(x) + Base * Small(Tail(x))

Digit(x, i) == IF i <= Len(x) THEN x[i] ELSE 0

RECURSIVE BigStrip(_)
BigStrip(x) ==
    IF x # <<>> /\ x[Len(x)] = 0 THEN BigStrip(SubSeq(x, 1, Len(x) - 1))
    ELSE x

RECURSIVE BigPlusFrom(_, _, _, _)
BigPlusFrom(x, y, i, carry) ==
    IF i > Len(x) /\ i > Len(y)
    THEN (IF carry = 0 THEN <<>> ELSE <<carry>>)
    ELSE LET s == Digit(x, i) + Digit(y, i) + carry
         IN  <<s % Base>> \o BigPlusFrom(x, y, i + 1, s \div Base)
BigPlus(x, y) == BigPlusFrom(x, y, 1, 0)

\* x - y, for x >= y
RECURSIVE BigMinusFrom(_, _, _, _)
BigMinusFrom(x, y, i, borrow) ==
    IF i > Len(x) THEN <<>>
    ELSE LET d == x[i] - Digit(y, i) - borrow
         IN  <<IF d < 0 THEN d + Base ELSE d>>
             \o BigMinusFrom(x, y, i + 1, IF d < 0 THEN 1 ELSE 0)
BigMinus(x, y) == BigStrip(BigMinusFrom(x, y, 1, 0))

RECURSIVE BigLessAt(_, _, _)
BigLessAt(x, y, i) ==
    IF i = 0 THEN FALSE
    ELSE IF x[i] # y[i] THEN x[i] < y[i]
    ELSE BigLessAt(x, y, i - 1)
BigLess(x, y) ==
    IF Len(x) # Len(y) THEN Len(x) < Len(y) ELSE BigLessAt(x, y, Len(x))

\* x * c, for 0 <= c < Base
RECURSIVE BigTimesFrom(_, _, _, _)
BigTimesFrom(x, c, i, carry) ==
    IF i > Len(x) THEN (IF carry = 0 THEN <<>> ELSE <<carry>>)
    ELSE LET p == x[i] * c + carry
         IN  <<p % Base>> \o BigTimesFrom(x, c, i + 1, p \div Base)
BigTimes(x, c) == IF c = 0 THEN <<>> ELSE BigTimesFrom(x, c, 1, 0)

\* x * 2^k
BigShift(x, k) ==
    IF x = <<>> THEN <<>>
    ELSE [i \in 1..(k \div 15) |-> 0] \o BigTimes(x, 2^(k % 15))

\* the number of binary digits of x
BitLength(x) ==
    IF x = <<>> THEN 0
    ELSE 15 * (Len(x) - 1)
         + CHOOSE j \in 1..15 : 2^(j - 1) <= x[Len(x)] /\ x[Len(x)] < 2^j

\* the binary digits the highest digit of d lacks
Slack(d) == 15 - BitLength(<<d[Len(d)]>>)

\* the digit t with d * t <= rest < d * (t + 1), for rest < d * Base and
\* a d whose highest digit is Base / 2 or more: the quotient of the two
\* highest digits of rest by the highest digit of d is t, t + 1 or t + 2
QuotientDigit(rest, d) ==
    LET high == (Digit(rest, Len(d) + 1) * Base + Digit(rest, Len(d)))
                    \div d[Len(d)]
        guess == IF high < Base THEN high ELSE Base - 1
    IN  CHOOSE t \in (IF guess < 2 THEN 0 ELSE guess - 2)..guess :
            /\ ~BigLess(rest, BigTimes(d, t))
            /\ BigLess(rest, BigTimes(d, t + 1))

\* one step of the long division: the quotient q and the remainder rest of
\* the digits so far
DivDigit(t, rest, q, d) ==
    <<BigStrip(<<t>> \o q), BigMinus(rest, BigTimes(d, t))>>
DivStep(digit, high, d) ==
    IF high[2] = <<>> /\ digit = 0 THEN <<BigStrip(<<0>> \o high[1]), <<>>>>
    ELSE DivDigit(QuotientDigit(BigStrip(<<digit>> \o high[2]), d),
                  BigStrip(<<digit>> \o high[2]), high[1], d)

\* <<quotient, remainder>> of the digits i.. of n by d: fewer digits than
\* d has are a remainder with no quotient
RECURSIVE BigDivFrom(_, _, _)
BigDivFrom(n, d, i) ==
    IF i > Len(n) - Len(d) + 1 THEN <<<<>>, SubSeq(n, i, Len(n))>>
    ELSE DivStep(n[i], BigDivFrom(n, d, i + 1), d)

\* <<quotient, remainder * 2^Slack(d)>> of n by d, for d > 0
BigDivMod(n, d) == BigDivFrom(BigShift(n, Slack(d)), BigShift(d, Slack(d)), 1)

\* a non-negative double is m * 2^e with 2^52 <= m < 2^53, or zero
Zero == [m |-> <<>>, e |-> 0]

\* n * 2^k / d is Numerator(n, k) / Denominator(d, k)
Numerator(n, k) == IF k > 0 THEN BigShift(n, k) ELSE n
Denominator(d, k) == IF k < 0 THEN BigShift(d, -k) ELSE d

\* the quotient q of a division, with twice its remainder rem2 on the
\* scale of den, to the nearest integer, a tie to the even one
RoundEven(q, rem2, den) ==
    IF BigLess(den, rem2) \/ (rem2 = den /\ Digit(q, 1) % 2 = 1)
    THEN BigPlus(q, <<1>>) ELSE q
RoundQuotient(qr, den) == RoundEven(qr[1], BigTimes(qr[2], 2), den)

\* n * 2^k / d to the nearest integer, a tie to the even one
NearestQuotient(n, d) ==
    RoundQuotient(BigDivMod(n, d), BigShift(d, Slack(d)))
NearestInteger(n, d, k) ==
    NearestQuotient(Numerator(n, k), Denominator(d, k))

\* the significand m with exponent e, brought back under 2^53
Normal(m, e) ==
    IF BitLength(m) = 54 THEN [m |-> BigShift(<<1>>, 52), e |-> e + 1]
    ELSE [m |-> m, e |-> e]

\* the power of two, k or k - 1, that gives n * 2^s / d 53 binary digits
Scale(n, d, k) ==
    IF BitLength(BigDivMod(Numerator(n, k), Denominator(d, k))[1]) = 54
    THEN k - 1 ELSE k

\* the double nearest to n / d * 2^e
NearestAt(n, d, e, s) == Normal(NearestInteger(n, d, s), e - s)
Nearest(n, d, e) ==
    IF n = <<>> THEN Zero
    ELSE NearestAt(n, d, e, Scale(n, d, 53 - (BitLength(n) - BitLength(d))))

\* |x - y| of two doubles, rounded
Aligned(x, e) == BigShift(x.m, x.e - e)
BigDistance(a, b) == IF BigLess(a, b) THEN BigMinus(b, a) ELSE BigMinus(a, b)
DistanceAt(x, y, e) ==
    Nearest(BigDistance(Aligned(x, e), Aligned(y, e)), <<1>>, e)
Distance(x, y) == DistanceAt(x, y, IF x.e < y.e THEN x.e ELSE y.e)

\* x / y and x * 100 of doubles, rounded
Quotient(x, y) == Nearest(x.m, y.m, x.e - y.e)
Times100(x) == Nearest(BigTimes(x.m, 100), <<1>>, x.e)

\* x.toFixed(2) read back by parseFloat, in hundredths: the integer n with
\* n / 100 nearest to x, the larger one of two
ToFixed2(x) ==
    IF x.e >= 0 THEN Small(BigShift(BigTimes(x.m, 100), x.e))
    ELSE Small(BigDivMod(BigPlus(BigTimes(x.m, 200), BigShift(<<1>>, -x.e)),
                         BigShift(<<1>>, 1 - x.e))[1])

\* the Number a JSON price of c hundredths is parsed to
Price(c) == Nearest(Big(c), Big(100), 0)

\* F(x), with x computed first
Then(x, F(_)) == CHOOSE r \in {F(v) : v \in {x}} : TRUE

\* |latest - prev| / prev * 100 in doubles
PercentOf(latest, prev) ==
    Then(Distance(latest, prev),
         LAMBDA change : Then(Quotient(change, prev), Times100))

\* the same for prices in hundredths, to two decimals by toFixed(2)
PercentOfPrices(latestClose, prevClose) ==
    Then(Price(latestClose),
         LAMBDA latest : Then(Price(prevClose),
             LAMBDA prev : Then(PercentOf(latest, prev), ToFixed2)))

\* n / d is half-way between two integers, for n >= 0 and d > 0
Tie(n, d) == (2 * n) % (2 * d) = d

\* n / d to the nearest integer, for n >= 0 and d > 0, when it is no tie
RoundDiv(n, d) == (2 * n + d) \div (2 * d)

\* v with the sign of n
Signed(n, v) == IF n < 0 THEN -v ELSE v

\* A Number that may not be finite: the value in hundredths, or one of the
\* IEEE results NaN, Infinity and -Infinity
Finite(v) == [kind |-> "finite", val |-> v]
NaN == [kind |-> "NaN"]
Infinity == [kind |-> "Infinity"]
MinusInfinity == [kind |-> "-Infinity"]

\* ((latest.close - prev.close) / prev.close * 100).toFixed(2) in
\* hundredths, for closes in hundredths.  The double differs from the exact
\* quotient by less than one part in 10^6, so away from a tie it rounds as
\* the exact quotient does; on a tie the roundings of the three operations
\* decide.  A zero divisor gives the IEEE results NaN and +-Infinity, which
\* toFixed and parseFloat pass on.
Percent(latestClose, prevClose) ==
    IF prevClose = 0
    THEN (IF latestClose = prevClose THEN NaN
          ELSE IF latestClose > prevClose THEN Infinity ELSE MinusInfinity)
    ELSE Finite(Signed(latestClose - prevClose,
                IF Tie(Abs(latestClose - prevClose) * 10000, prevClose)
                THEN PercentOfPrices(latestClose, prevClose)
                ELSE RoundDiv(Abs(latestClose - prevClose) * 10000, prevClose)))

\* (totalNet / 100000000).toFixed(2) in hundredths: one division, so on a
\* tie the double nearest to the quotient decides
Hundredths(totalNet) ==
    Signed(totalNet,
           IF Tie(Abs(totalNet), 1000000)
           THEN ToFixed2(Nearest(Big(Abs(totalNet)), Big(100000000), 0))
           ELSE RoundDiv(Abs(totalNet), 1000000))

\* latest and prev of a non-empty series: data[length - 2] || latest.
\* Closes are hundredths, so latest.close - prev.close is a whole number of
\* hundredths and toFixed(2) leaves it as it is.
Latest(data) == data[Len(data)]
Prev_First(data) == data[1]
Prev(data) == IF Len(data) >= 2 THEN data[Len(data) - 1] ELSE Latest(data)

\* the rows of the last row's date
DailyData_All(data) == {i \in 1..Len(data) : TRUE}
DailyData(data) == {i \in 1..Len(data) : data[i].date = Latest(data).date}

RECURSIVE SumNet(_, _, _)
SumNet(data, rows, k) ==
    IF k = 0 THEN 0
    ELSE SumNet(data, rows, k - 1)
         + (IF k \in rows THEN data[k].buy - data[k].sell ELSE 0)

\* the forEach of fetchStockInstitutionalData, for one investor class
ClassNet(data, name) ==
    SumNet(data, {i \in DailyData(data) : data[i].name = name}, Len(data))

---------------------------------------------------------------------------
(* The values the fetch-and-derive operations resolve to *)

ErrorFlag(stockId) == [kind |-> "object", error |-> TRUE, id |-> stockId]

\* what each operation returns from its catch block
ErrorValue(name, stockId) ==
    IF name = "fetchStockData" THEN ErrorFlag(stockId)
    ELSE IF name = "fetchInstitutionalInvestors"
    THEN [kind |-> "object", apiStatus |-> "error"]
    ELSE [kind |-> "object", status |-> "error"]

\* what each operation returns when json.data is missing or empty
NoDataValue_AsError(name, stockId) == ErrorValue(name, stockId)
NoDataValue(name, stockId) ==
    IF name = "fetchStockData" THEN ErrorFlag(stockId)
    ELSE IF name = "fetchInstitutionalInvestors"
    THEN [kind |-> "object", apiStatus |-> "nodata"]
    ELSE [kind |-> "object", status |-> "nodata"]

MarketIndexValue(data) ==
    LET latest == Latest(data)
        prev == Prev(data)
        change == latest.close - prev.close
    IN  [kind |-> "object", price |-> latest.close, change |-> change,
         pct |-> Percent(latest.close, prev.close), status |-> "success"]

FundFlowValue(data) ==
    LET totalNet == SumNet(data, DailyData(data), Len(data))
    IN  [kind |-> "object", total |-> Hundredths(totalNet),
         date |-> Latest(data).date,
         status |-> IF totalNet >= 0 THEN "Buy" ELSE "Sell",
         apiStatus |-> "success"]

StockInstitutionalValue(data) ==
    LET foreign == ClassNet(data, "Foreign_Investor")
        trust == ClassNet(data, "Investment_Trust")
        dealer == ClassNet(data, "Dealer")
    IN  [kind |-> "object", date |-> Latest(data).date, foreign |-> foreign,
         trust |-> trust, dealer |-> dealer,
         total |-> foreign + trust + dealer, status |-> "success"]

StockDataValue(stockId, name, historyData, perData) ==
    LET latestPER == IF Len(perData) > 0 THEN Some(perData[Len(perData)]) ELSE Null
        latest == Latest(historyData)
        prev == Prev(historyData)
    IN  [kind |-> "object", id |-> stockId, name |-> name,
         price |-> latest.close,
         change |-> latest.close - prev.close,
         pct |-> Percent(latest.close, prev.close),
         per |-> IF latestPER = Null THEN Null ELSE Some(latestPER[1].PER),
         pbr |-> IF latestPER = Null THEN Null ELSE Some(latestPER[1].PBR),
         history |-> historyData, status |-> "success"]

\* json.data && json.data.length > 0
HasRows(body) == body.kind = "data" /\ Len(body.data) > 0

---------------------------------------------------------------------------
(* Inputs: what the upstream service may answer *)

\* a response body as res.json() delivers it: a rejection (not JSON), a
\* JSON object without a data field, or one whose data is an array
ParseError == [kind |-> "parse_error", data |-> <<>>]
NoDataField == [kind |-> "no_data", data |-> <<>>]
DataBody(rows) == [kind |-> "data", data |-> rows]
Bodies(RowSeqs) == {ParseError, NoDataField} \cup {DataBody(r) : r \in RowSeqs}
NoBody == [kind |-> "none", data |-> <<>>]

QueryChars == {"1", "a", "b", " "}
Queries == SeqsUpTo(QueryChars, MaxQueryLen)

StockIdValues == {<<"1">>, <<"b">>}
StockNameValues == {<<"a">>, <<"a", "b">>}
Entries == [stock_id : StockIdValues, stock_name : StockNameValues]
Lists == SeqsUpTo(Entries, MaxListLen)

\* a few lists and queries, for the runs in which calls overlap
FewLists == {<<>>,
             <<[stock_id |-> <<"1">>, stock_name |-> <<"a">>]>>,
             <<[stock_id |-> <<"b">>, stock_name |-> <<"a", "b">>],
               [stock_id |-> <<"1">>, stock_name |-> <<"a">>]>>}
FewQueries == {<<"1">>, <<"a">>, <<" ">>}

\* 8.00 and 8.01: a percentage half-way between two hundredths
Closes == (0..MaxClose) \cup {800, 801, 10000, 10500}
PriceSeries == SeqsUpTo([close : Closes], MaxLen)
FewPriceSeries == {<<>>, <<[close |-> 10000], [close |-> 10500]>>}

InvestorNames == {"Foreign_Investor", "Investment_Trust", "Dealer", "Foreign_Dealer_Self"}
Dates == {"2024-01-02", "2024-01-03"}
Volumes == {[buy |-> 3, sell |-> 1], [buy |-> 1, sell |-> 2]}
InstRows == {[date |-> d, name |-> n, buy |-> v.buy, sell |-> v.sell] :
                d \in Dates, n \in InvestorNames, v \in Volumes}
InstSeries == SeqsUpTo(InstRows, MaxRows)
FewInstSeries ==
    {<<>>,
     <<[date |-> "2024-01-02", name |-> "Dealer", buy |-> 3, sell |-> 1],
       [date |-> "2024-01-03", name |-> "Foreign_Investor", buy |-> 1, sell |-> 2]>>,
     <<[date |-> "2024-01-03", name |-> "Dealer", buy |-> 1500000, sell |-> 0]>>}

PerSeries == {<<>>, <<[PER |-> 15, PBR |-> 2]>>}

---------------------------------------------------------------------------
(* State *)

Init ==
    /\ stockListCache = Null
    /\ op = [p \in Slots |-> "idle"]
    /\ arg = [p \in Slots |-> <<>>]
    /\ pc = [p \in Slots |-> "idle"]
    /\ lpc = [p \in Slots |-> "none"]
    /\ list = [p \in Slots |-> <<>>]
    /\ held = [p \in Slots |-> NoBody]
    /\ result = [p \in Slots |-> Pending]
    /\ nfetch = [p \in Slots |-> 0]
    /\ cache0 = [p \in Slots |-> Null]
    /\ failed = [p \in Slots |-> {}]
    /\ assigns = 0
    \* the component after its first render, part_001:69-79, and the effect
    \* of part_001:100, which has run refreshMarket up to its first await
    /\ view = "home"
    /\ marketIndex = Null
    /\ fundFlow = Null
    /\ hotStocks = {}
    /\ searchHistory = <<>>
    /\ selectedStock = Null
    /\ analysis = Null
    /\ isLoading = TRUE
    /\ searchError = ""
    /\ connectionStatus = "loading"
    /\ spc = [r \in Runs |-> "idle"]
    /\ squery = [r \in Runs |-> <<>>]
    /\ sstockId = [r \in Runs |-> Pending]
    /\ sdata = [r \in Runs |-> Pending]
    /\ sinst = [r \in Runs |-> Pending]
    /\ sname = [r \in Runs |-> Pending]
    /\ rpc = [k \in Refreshes |-> IF k = 1 THEN "market" ELSE "idle"]
    /\ rnames = [k \in Refreshes |-> <<>>]
    /\ abandoned = 0
    /\ trace = [r \in Runs |-> <<>>]
    /\ rfailed = [k \in Refreshes |-> {}]
    /\ newest = 0
    /\ newestOk = Null
    /\ lastStep = NoEnd

\* a call starts in a free slot
Enter(p, name, a) ==
    /\ op[p] = "idle"
    /\ op' = [op EXCEPT ![p] = name]
    /\ arg' = [arg EXCEPT ![p] = a]
    /\ cache0' = [cache0 EXCEPT ![p] = stockListCache]
    /\ failed' = [failed EXCEPT ![p] = {}]
    /\ held' = [held EXCEPT ![p] = NoBody]

\* the function's promise settles with value v
Settle(p, v) ==
    /\ result' = [result EXCEPT ![p] = v]
    /\ pc' = [pc EXCEPT ![p] = "done"]

Fail(p, what) == failed' = [failed EXCEPT ![p] = @ \cup {what}]

\* an exception reaches the operation's catch block, which returns a value
Caught_Rethrow(p) ==
    /\ result' = [result EXCEPT ![p] = Rejected]
    /\ pc' = [pc EXCEPT ![p] = "done"]
    /\ Fail(p, "data")
Caught(p) ==
    /\ Settle(p, ErrorValue(op[p], arg[p]))
    /\ Fail(p, "data")

---------------------------------------------------------------------------
(* getStockList, finmind.ts:16-29 *)

\* the call up to its first await: the cached array, or a request
GetStockListCall(p) ==
    IF stockListCache # Null
    THEN /\ lpc' = [lpc EXCEPT ![p] = "ret"]
         /\ list' = [list EXCEPT ![p] = stockListCache[1]]
         /\ nfetch' = [nfetch EXCEPT ![p] = 0]
    ELSE /\ lpc' = [lpc EXCEPT ![p] = "fetch"]
         /\ list' = [list EXCEPT ![p] = <<>>]
         /\ nfetch' = [nfetch EXCEPT ![p] = 1]

\* await fetch(...TaiwanStockInfo) settles; a rejection is caught: []
ListFetchSettles(p, ok) ==
    /\ lpc[p] = "fetch"
    /\ IF ok
       THEN /\ lpc' = [lpc EXCEPT ![p] = "json"]
            /\ UNCHANGED failed
       ELSE /\ lpc' = [lpc EXCEPT ![p] = "ret"]
            /\ Fail(p, "list")
    /\ UNCHANGED <<stockListCache, op, arg, pc, list, held, result,
                   nfetch, cache0, assigns>>
    /\ UNCHANGED appVars

\* await res.json() settles; json.data, when there, becomes the cache
ListJsonSettles(p, bodies) ==
    /\ lpc[p] = "json"
    /\ lpc' = [lpc EXCEPT ![p] = "ret"]
    /\ \E body \in bodies :
        IF body.kind = "data"
        THEN /\ stockListCache' = Some(body.data)
             /\ list' = [list EXCEPT ![p] = body.data]
             /\ assigns' = assigns + 1
             /\ UNCHANGED failed
        ELSE /\ list' = [list EXCEPT ![p] = <<>>]
             /\ IF body.kind = "parse_error"
                THEN Fail(p, "list") ELSE UNCHANGED failed
             /\ UNCHANGED <<stockListCache, assigns>>
    /\ UNCHANGED <<op, arg, pc, held, result, nfetch, cache0>>
    /\ UNCHANGED appVars

---------------------------------------------------------------------------
(* resolveStockId, finmind.ts:34-50 *)

ResolveStockId(p, query) ==
    LET trimmed == Trim(query)
    IN  /\ Enter(p, "resolveStockId", query)
        /\ IF trimmed = <<>>
           THEN /\ Settle(p, NullResult)
                /\ UNCHANGED <<lpc, list, nfetch>>
           ELSE IF IsDigits(trimmed)
           THEN /\ Settle(p, StringResult(trimmed))
                /\ UNCHANGED <<lpc, list, nfetch>>
           ELSE /\ GetStockListCall(p)
                /\ pc' = [pc EXCEPT ![p] = "list"]
                /\ UNCHANGED result
        /\ UNCHANGED <<stockListCache, assigns>>
        /\ UNCHANGED appVars

\* after await getStockList(): the two finds
ResolveContinue(p) ==
    /\ op[p] = "resolveStockId" /\ pc[p] = "list" /\ lpc[p] = "ret"
    /\ Settle(p, ResolveInList(list[p], Trim(arg[p])))
    /\ lpc' = [lpc EXCEPT ![p] = "none"]
    /\ UNCHANGED <<stockListCache, op, arg, list, held, nfetch, cache0,
                   failed, assigns>>
    /\ UNCHANGED appVars

---------------------------------------------------------------------------
(* fetchStockName, finmind.ts:55-59 *)

FetchStockName(p, stockId) ==
    /\ Enter(p, "fetchStockName", stockId)
    /\ GetStockListCall(p)
    /\ pc' = [pc EXCEPT ![p] = "list"]
    /\ UNCHANGED <<stockListCache, result, assigns>>
    /\ UNCHANGED appVars

NameContinue(p) ==
    /\ op[p] = "fetchStockName" /\ pc[p] = "list" /\ lpc[p] = "ret"
    /\ Settle(p, NameInList(list[p], arg[p]))
    /\ lpc' = [lpc EXCEPT ![p] = "none"]
    /\ UNCHANGED <<stockListCache, op, arg, list, held, nfetch, cache0,
                   failed, assigns>>
    /\ UNCHANGED appVars

\* the caller has taken the value: the slot is free again
Return(p) ==
    /\ pc[p] = "done" /\ lpc[p] \in {"none", "ret"}
    /\ op' = [op EXCEPT ![p] = "idle"]
    /\ arg' = [arg EXCEPT ![p] = <<>>]
    /\ pc' = [pc EXCEPT ![p] = "idle"]
    /\ lpc' = [lpc EXCEPT ![p] = "none"]
    /\ list' = [list EXCEPT ![p] = <<>>]
    /\ held' = [held EXCEPT ![p] = NoBody]
    /\ result' = [result EXCEPT ![p] = Pending]
    /\ nfetch' = [nfetch EXCEPT ![p] = 0]
    /\ cache0' = [cache0 EXCEPT ![p] = Null]
    /\ failed' = [failed EXCEPT ![p] = {}]
    /\ UNCHANGED <<stockListCache, assigns>>
    /\ UNCHANGED appVars

---------------------------------------------------------------------------
(* fetchMarketIndex, finmind.ts:61-88 *)

FetchMarketIndex(p) ==
    /\ Enter(p, "fetchMarketIndex", <<>>)
    /\ pc' = [pc EXCEPT ![p] = "fetch"]
    /\ UNCHANGED <<stockListCache, lpc, list, result, nfetch, assigns>>
    /\ UNCHANGED appVars

\* await fetch settles: res is "reject", "not_ok" or "ok"
MarketIndexFetched(p, res) ==
    /\ op[p] = "fetchMarketIndex" /\ pc[p] = "fetch"
    /\ IF res = "ok"
       THEN /\ pc' = [pc EXCEPT ![p] = "json"]
            /\ UNCHANGED <<result, failed>>
       ELSE Caught(p)
    /\ UNCHANGED <<stockListCache, op, arg, lpc, list, held, nfetch, cache0,
                   assigns>>
    /\ UNCHANGED appVars

MarketIndexParsed(p, bodies) ==
    /\ op[p] = "fetchMarketIndex" /\ pc[p] = "json"
    /\ \E body \in bodies :
        /\ held' = [held EXCEPT ![p] = body]
        /\ IF body.kind = "parse_error" THEN Caught(p)
           ELSE /\ Settle(p, IF HasRows(body) THEN MarketIndexValue(body.data)
                             ELSE NoDataValue(op[p], arg[p]))
                /\ UNCHANGED failed
    /\ UNCHANGED <<stockListCache, op, arg, lpc, list, nfetch, cache0, assigns>>
    /\ UNCHANGED appVars

---------------------------------------------------------------------------
(* fetchInstitutionalInvestors, finmind.ts:90-113 *)

FetchInstitutionalInvestors(p) ==
    /\ Enter(p, "fetchInstitutionalInvestors", <<>>)
    /\ pc' = [pc EXCEPT ![p] = "fetch"]
    /\ UNCHANGED <<stockListCache, lpc, list, result, nfetch, assigns>>
    /\ UNCHANGED appVars

FundFlowFetched(p, res) ==
    /\ op[p] = "fetchInstitutionalInvestors" /\ pc[p] = "fetch"
    /\ IF res = "ok"
       THEN /\ pc' = [pc EXCEPT ![p] = "json"]
            /\ UNCHANGED <<result, failed>>
       ELSE Caught(p)
    /\ UNCHANGED <<stockListCache, op, arg, lpc, list, held, nfetch, cache0,
                   assigns>>
    /\ UNCHANGED appVars

FundFlowParsed(p, bodies) ==
    /\ op[p] = "fetchInstitutionalInvestors" /\ pc[p] = "json"
    /\ \E body \in bodies :
        /\ held' = [held EXCEPT ![p] = body]
        /\ IF body.kind = "parse_error" THEN Caught(p)
           ELSE /\ Settle(p, IF HasRows(body) THEN FundFlowValue(body.data)
                             ELSE NoDataValue(op[p], arg[p]))
                /\ UNCHANGED failed
    /\ UNCHANGED <<stockListCache, op, arg, lpc, list, nfetch, cache0, assigns>>
    /\ UNCHANGED appVars

---------------------------------------------------------------------------
(* fetchStockInstitutionalData, finmind.ts:115-137: res.ok is not looked at *)

FetchStockInstitutionalData(p, stockId) ==
    /\ Enter(p, "fetchStockInstitutionalData", stockId)
    /\ pc' = [pc EXCEPT ![p] = "fetch"]
    /\ UNCHANGED <<stockListCache, lpc, list, result, nfetch, assigns>>
    /\ UNCHANGED appVars

StockInstitutionalFetched(p, res) ==
    /\ op[p] = "fetchStockInstitutionalData" /\ pc[p] = "fetch"
    /\ IF res = "reject" THEN Caught(p)
       ELSE /\ pc' = [pc EXCEPT ![p] = "json"]
            /\ UNCHANGED <<result, failed>>
    /\ UNCHANGED <<stockListCache, op, arg, lpc, list, held, nfetch, cache0,
                   assigns>>
    /\ UNCHANGED appVars

StockInstitutionalParsed(p, bodies) ==
    /\ op[p] = "fetchStockInstitutionalData" /\ pc[p] = "json"
    /\ \E body \in bodies :
        /\ held' = [held EXCEPT ![p] = body]
        /\ IF body.kind = "parse_error" THEN Caught(p)
           ELSE /\ Settle(p, IF HasRows(body) THEN StockInstitutionalValue(body.data)
                             ELSE NoDataValue(op[p], arg[p]))
                /\ UNCHANGED failed
    /\ UNCHANGED <<stockListCache, op, arg, lpc, list, nfetch, cache0, assigns>>
    /\ UNCHANGED appVars

---------------------------------------------------------------------------
(* fetchStockData, finmind.ts:139-174 *)

\* the price request and fetchStockName(stockId) start together
FetchStockData(p, stockId) ==
    /\ Enter(p, "fetchStockData", stockId)
    /\ GetStockListCall(p)
    /\ pc' = [pc EXCEPT ![p] = "all"]
    /\ UNCHANGED <<stockListCache, result, assigns>>
    /\ UNCHANGED appVars

\* the price request settles; a rejection rejects Promise.all at once,
\* while the list request of fetchStockName stays in flight
StockDataPriceFetched(p, res) ==
    /\ op[p] = "fetchStockData" /\ pc[p] = "all"
    /\ IF res = "reject" THEN Caught(p)
       ELSE /\ pc' = [pc EXCEPT ![p] = "all_price"]
            /\ UNCHANGED <<result, failed>>
    /\ UNCHANGED <<stockListCache, op, arg, lpc, list, held, nfetch, cache0,
                   assigns>>
    /\ UNCHANGED appVars

\* both promises of Promise.all are fulfilled: priceRes.json() is called
StockDataAllResolved(p) ==
    /\ op[p] = "fetchStockData" /\ pc[p] = "all_price" /\ lpc[p] = "ret"
    /\ pc' = [pc EXCEPT ![p] = "price_json"]
    /\ UNCHANGED <<stockListCache, op, arg, lpc, list, held, result, nfetch,
                   cache0, failed, assigns>>
    /\ UNCHANGED appVars

\* priceJson arrives; with rows, the valuation-ratio request is issued
StockDataPriceParsed(p, bodies) ==
    /\ op[p] = "fetchStockData" /\ pc[p] = "price_json"
    /\ \E body \in bodies :
        /\ held' = [held EXCEPT ![p] = body]
        /\ IF body.kind = "parse_error" THEN Caught(p)
           ELSE IF ~HasRows(body)
           THEN /\ Settle(p, NoDataValue(op[p], arg[p]))
                /\ UNCHANGED failed
           ELSE /\ pc' = [pc EXCEPT ![p] = "per"]
                /\ UNCHANGED <<result, failed>>
    /\ UNCHANGED <<stockListCache, op, arg, lpc, list, nfetch, cache0, assigns>>
    /\ UNCHANGED appVars

StockDataPerFetched(p, res) ==
    /\ op[p] = "fetchStockData" /\ pc[p] = "per"
    /\ IF res = "reject" THEN Caught(p)
       ELSE /\ pc' = [pc EXCEPT ![p] = "per_json"]
            /\ UNCHANGED <<result, failed>>
    /\ UNCHANGED <<stockListCache, op, arg, lpc, list, held, nfetch, cache0,
                   assigns>>
    /\ UNCHANGED appVars

\* perJson arrives: perJson.data?.length > 0 ? last : null
StockDataPerParsed(p, bodies) ==
    /\ op[p] = "fetchStockData" /\ pc[p] = "per_json"
    /\ \E body \in bodies :
        IF body.kind = "parse_error" THEN Caught(p)
        ELSE /\ Settle(p, StockDataValue(arg[p], NameInList(list[p], arg[p]).val,
                                         held[p].data, body.data))
             /\ UNCHANGED failed
    /\ UNCHANGED <<stockListCache, op, arg, lpc, list, held, nfetch, cache0,
                   assigns>>
    /\ UNCHANGED appVars

---------------------------------------------------------------------------
(* Every operation, one call at a time *)

Responses == {"reject", "not_ok", "ok"}

FewListBodies == Bodies(FewLists)
PriceBodies == Bodies(PriceSeries)
FewInstBodies == Bodies(FewInstSeries)
PerBodies == Bodies(PerSeries)

Next ==
    \/ \E q \in FewQueries : ResolveStockId(1, q)
    \/ \E id \in StockIdValues : FetchStockName(1, id)
    \/ \E ok \in BOOLEAN : ListFetchSettles(1, ok)
    \/ ListJsonSettles(1, FewListBodies)
    \/ ResolveContinue(1)
    \/ NameContinue(1)
    \/ FetchMarketIndex(1)
    \/ \E res \in Responses : MarketIndexFetched(1, res)
    \/ MarketIndexParsed(1, PriceBodies)
    \/ FetchInstitutionalInvestors(1)
    \/ \E res \in Responses : FundFlowFetched(1, res)
    \/ FundFlowParsed(1, FewInstBodies)
    \/ \E id \in StockIdValues : FetchStockInstitutionalData(1, id)
    \/ \E res \in Responses : StockInstitutionalFetched(1, res)
    \/ StockInstitutionalParsed(1, FewInstBodies)
    \/ \E id \in StockIdValues : FetchStockData(1, id)
    \/ \E res \in Responses : StockDataPriceFetched(1, res)
    \/ StockDataAllResolved(1)
    \/ StockDataPriceParsed(1, PriceBodies)
    \/ \E res \in Responses : StockDataPerFetched(1, res)
    \/ StockDataPerParsed(1, PerBodies)
    \/ Return(1)

Spec == Init /\ [][Next]_vars

---------------------------------------------------------------------------
(* Institutional flow alone: one call at a time, every series of rows *)

InstBodies == Bodies(InstSeries)

NextInst ==
    \/ FetchInstitutionalInvestors(1)
    \/ \E res \in Responses : FundFlowFetched(1, res)
    \/ FundFlowParsed(1, InstBodies)
    \/ \E id \in StockIdValues : FetchStockInstitutionalData(1, id)
    \/ \E res \in Responses : StockInstitutionalFetched(1, res)
    \/ StockInstitutionalParsed(1, InstBodies)
    \/ Return(1)

SpecInst == Init /\ [][NextInst]_vars

---------------------------------------------------------------------------
(* Identifier resolution alone: one call at a time, every query and list *)

ListBodies == Bodies(Lists)

NextResolve ==
    \/ \E q \in Queries : ResolveStockId(1, q)
    \/ \E ok \in BOOLEAN : ListFetchSettles(1, ok)
    \/ ListJsonSettles(1, ListBodies)
    \/ ResolveContinue(1)
    \/ Return(1)

SpecResolve == Init /\ [][NextResolve]_vars

---------------------------------------------------------------------------
(* Overlapping calls: the lookups that share the cache, in every slot.  The
   six fetchStockData calls of refreshMarket start back to back, each
   running fetchStockName up to its first await. *)

FewPriceBodies == Bodies(FewPriceSeries)
FewPerBodies == {DataBody(<<>>)}

NextCache ==
    \E p \in Slots :
        \/ \E q \in FewQueries : ResolveStockId(p, q)
        \/ \E id \in StockIdValues : FetchStockName(p, id)
        \/ \E ok \in BOOLEAN : ListFetchSettles(p, ok)
        \/ ListJsonSettles(p, FewListBodies)
        \/ ResolveContinue(p)
        \/ NameContinue(p)
        \/ \E id \in StockIdValues : FetchStockData(p, id)
        \/ \E res \in Responses : StockDataPriceFetched(p, res)
        \/ StockDataAllResolved(p)
        \/ StockDataPriceParsed(p, FewPriceBodies)
        \/ \E res \in Responses : StockDataPerFetched(p, res)
        \/ StockDataPerParsed(p, FewPerBodies)
        \/ Return(p)

SpecCache == Init /\ [][NextCache]_vars

---------------------------------------------------------------------------
(* Claims about resolveStockId, checked under SpecResolve *)

Resolved(p) == op[p] = "resolveStockId" /\ pc[p] = "done"

\* t is q without its leading and trailing whitespace
IsTrimOf(t, q) ==
    \E i \in 0..Len(q) : \E j \in i..Len(q) :
        /\ t = SubSeq(q, i + 1, j)
        /\ \A k \in 1..i : q[k] \in Whitespace
        /\ \A k \in (j + 1)..Len(q) : q[k] \in Whitespace
        /\ t # <<>> => (t[1] \notin Whitespace /\ t[Len(t)] \notin Whitespace)

TrimmedOf(q) == CHOOSE t \in {SubSeq(q, i, j) : i \in 1..(Len(q) + 1), j \in 0..Len(q)} :
                    IsTrimOf(t, q)

AllDigits(t) == t # <<>> /\ \A k \in 1..Len(t) : t[k] \in Digits
NonNumeric(t) == t # <<>> /\ \E k \in 1..Len(t) : t[k] \notin Digits

EqualsEntry(e, t) == e.stock_name = t \/ e.stock_id = t
ContainsQuery(e, t) ==
    \E i \in 1..Len(e.stock_name) : \E j \in i..Len(e.stock_name) :
        SubSeq(e.stock_name, i, j) = t

\* C1: a query whose trimmed text is all decimal digits resolves to that
\* trimmed text, issues no list request and leaves the cache as it was
C1_NumericReturnsItself ==
    \A p \in Slots :
        (Resolved(p) /\ AllDigits(TrimmedOf(arg[p]))) =>
            /\ result[p] = StringResult(TrimmedOf(arg[p]))
            /\ nfetch[p] = 0
            /\ stockListCache = cache0[p]

\* a padded numeric query has resolved to its digits while the cache holds
\* a list without that identifier
C1_Witness ==
    \E p \in Slots :
        /\ Resolved(p)
        /\ arg[p] = <<" ", "1", "1">>
        /\ result[p] = StringResult(<<"1", "1">>)
        /\ stockListCache # Null
        /\ Len(stockListCache[1]) > 0
        /\ \A i \in 1..Len(stockListCache[1]) :
               stockListCache[1][i].stock_id # <<"1", "1">>

\* C2: for a non-numeric query, when some entry's name or identifier equals
\* the trimmed query the result is the identifier of the first such entry,
\* whatever entries before it merely contain the query
C2_ExactMatchFirst ==
    \A p \in Slots :
        (Resolved(p) /\ NonNumeric(TrimmedOf(arg[p]))) =>
            \A i \in 1..Len(list[p]) :
                (/\ EqualsEntry(list[p][i], TrimmedOf(arg[p]))
                 /\ \A j \in 1..(i - 1) : ~EqualsEntry(list[p][j], TrimmedOf(arg[p])))
                => result[p] = StringResult(list[p][i].stock_id)

\* the exact match is the second entry and the first entry contains the query
C2_Witness ==
    \E p \in Slots :
        /\ Resolved(p)
        /\ TrimmedOf(arg[p]) = <<"a">>
        /\ Len(list[p]) = 2
        /\ list[p][1] = [stock_id |-> <<"1">>, stock_name |-> <<"a", "b">>]
        /\ list[p][2] = [stock_id |-> <<"b">>, stock_name |-> <<"a">>]
        /\ result[p] = StringResult(<<"b">>)

\* C3: for a non-numeric query that no entry equals, the result is the
\* identifier of the first entry whose name contains the trimmed query
C3_SubstringMatchFirst ==
    \A p \in Slots :
        (/\ Resolved(p) /\ NonNumeric(TrimmedOf(arg[p]))
         /\ \A i \in 1..Len(list[p]) : ~EqualsEntry(list[p][i], TrimmedOf(arg[p])))
        => \A i \in 1..Len(list[p]) :
               (/\ ContainsQuery(list[p][i], TrimmedOf(arg[p]))
                /\ \A j \in 1..(i - 1) : ~ContainsQuery(list[p][j], TrimmedOf(arg[p])))
               => result[p] = StringResult(list[p][i].stock_id)

\* two entries contain the query, none equals it, the first one's id is returned
C3_Witness ==
    \E p \in Slots :
        /\ Resolved(p)
        /\ TrimmedOf(arg[p]) = <<"a">>
        /\ Len(list[p]) = 2
        /\ list[p][1] = [stock_id |-> <<"b">>, stock_name |-> <<"a", "b">>]
        /\ list[p][2] = [stock_id |-> <<"1">>, stock_name |-> <<"a", "b">>]
        /\ result[p] = StringResult(<<"b">>)

\* C4: resolveStockId never rejects, and resolves to null when nothing
\* matches: an empty or whitespace-only query, a non-numeric query that no
\* entry equals or contains, and a list that could not be fetched
C4_NoMatchIsNull ==
    \A p \in Slots :
        Resolved(p) =>
            /\ result[p].kind # "rejected"
            /\ TrimmedOf(arg[p]) = <<>> => result[p] = NullResult
            /\ (/\ NonNumeric(TrimmedOf(arg[p]))
                /\ \A i \in 1..Len(list[p]) :
                       /\ ~EqualsEntry(list[p][i], TrimmedOf(arg[p]))
                       /\ ~ContainsQuery(list[p][i], TrimmedOf(arg[p])))
               => result[p] = NullResult
            /\ (NonNumeric(TrimmedOf(arg[p])) /\ "list" \in failed[p])
               => (list[p] = <<>> /\ result[p] = NullResult)

\* a non-numeric query has resolved to null after its list request failed
C4_Witness ==
    \E p \in Slots :
        /\ Resolved(p)
        /\ NonNumeric(TrimmedOf(arg[p]))
        /\ "list" \in failed[p]
        /\ stockListCache = Null
        /\ result[p] = NullResult

---------------------------------------------------------------------------
(* Claims about the fetch-and-derive operations *)

Done(p, name) == op[p] = name /\ pc[p] = "done"

Succeeded(p) ==
    /\ pc[p] = "done"
    /\ "status" \in DOMAIN result[p]
    /\ result[p].status = "success"

\* r is the hundredth nearest to n / d, for d > 0
NearestHundredth(r, n, d) == 2 * Abs(r * d - n) <= d

\* C5: fetchMarketIndex and fetchStockData derive change and percent from
\* the last two points of the series: change is last minus previous, percent
\* is change / previous * 100 to the nearest hundredth; with one point the
\* previous value is the latest one and change is zero
C5_DeltaPercent ==
    \A p \in Slots :
        ((Done(p, "fetchMarketIndex") \/ Done(p, "fetchStockData")) /\ Succeeded(p)) =>
            LET data == held[p].data
                n == Len(data)
                last == data[n].close
                prev == IF n >= 2 THEN data[n - 1].close ELSE data[n].close
            IN  /\ n >= 1
                /\ result[p].price = last
                /\ result[p].change = last - prev
                /\ n = 1 => result[p].change = 0
                /\ IF prev > 0
                   THEN /\ result[p].pct.kind = "finite"
                        /\ NearestHundredth(result[p].pct.val,
                                            (last - prev) * 10000, prev)
                   ELSE result[p].pct \in {NaN, Infinity, MinusInfinity}

\* closes [100, 105] have given change 5.00 and percent 5.00
C5_Witness ==
    \E p \in Slots :
        /\ Done(p, "fetchStockData") /\ Succeeded(p)
        /\ held[p].data = <<[close |-> 10000], [close |-> 10500]>>
        /\ result[p].change = 500
        /\ result[p].pct = Finite(500)

RECURSIVE NetOfClass(_, _, _)
NetOfClass(rows, date, name) ==
    IF rows = <<>> THEN 0
    ELSE (IF Head(rows).date = date /\ Head(rows).name = name
          THEN Head(rows).buy - Head(rows).sell ELSE 0)
         + NetOfClass(Tail(rows), date, name)

\* C6: on success fetchStockInstitutionalData returns total = foreign +
\* trust + dealer, each the sum of buy - sell over the rows of the last
\* row's date and of that investor class
C6_InstitutionalTotal ==
    \A p \in Slots :
        (Done(p, "fetchStockInstitutionalData") /\ Succeeded(p)) =>
            LET data == held[p].data
                lastDate == data[Len(data)].date
            IN  /\ result[p].date = lastDate
                /\ result[p].foreign = NetOfClass(data, lastDate, "Foreign_Investor")
                /\ result[p].trust = NetOfClass(data, lastDate, "Investment_Trust")
                /\ result[p].dealer = NetOfClass(data, lastDate, "Dealer")
                /\ result[p].total =
                       result[p].foreign + result[p].trust + result[p].dealer

\* a foreign row of an earlier date is left out, and two classes add up
C6_Witness ==
    \E p \in Slots :
        /\ Done(p, "fetchStockInstitutionalData") /\ Succeeded(p)
        /\ Len(held[p].data) = 3
        /\ held[p].data[1].date # held[p].data[3].date
        /\ held[p].data[1].name = "Foreign_Investor"
        /\ held[p].data[2].date = held[p].data[3].date
        /\ held[p].data[2].name = "Foreign_Investor"
        /\ held[p].data[3].name = "Dealer"
        /\ result[p].foreign = held[p].data[2].buy - held[p].data[2].sell
        /\ result[p].dealer # 0
        /\ result[p].total = result[p].foreign + result[p].dealer

DeriveOps == {"fetchMarketIndex", "fetchInstitutionalInvestors",
              "fetchStockInstitutionalData", "fetchStockData"}

\* the parsed response has no data field, or an empty data array
EmptyData(body) ==
    body.kind = "no_data" \/ (body.kind = "data" /\ body.data = <<>>)

HasStatus(r, field, value) == field \in DOMAIN r /\ r[field] = value

IsNoDataStatus(r) ==
    HasStatus(r, "status", "nodata") \/ HasStatus(r, "apiStatus", "nodata")

IsErrorValue(r) ==
    \/ HasStatus(r, "status", "error")
    \/ HasStatus(r, "apiStatus", "error")
    \/ HasStatus(r, "error", TRUE)

\* C7 as stated: an empty or missing data array makes every
\* fetch-and-derive operation return a "no data" status
C7_Original ==
    \A p \in Slots :
        (pc[p] = "done" /\ op[p] \in DeriveOps /\ EmptyData(held[p])
         /\ failed[p] = {})
            => IsNoDataStatus(result[p])

\* C7, amended: when the parsed response has an empty or missing data
\* array no operation rejects; fetchMarketIndex, fetchInstitutionalInvestors
\* and fetchStockInstitutionalData return the status "nodata", while a
\* failed request gives them "error"; fetchStockData returns the error flag
\* {error: true, id}, the value it also returns on a failure
C7_EmptyData ==
    \A p \in Slots :
        (pc[p] = "done" /\ op[p] \in DeriveOps) =>
            /\ result[p].kind # "rejected"
            /\ EmptyData(held[p]) =>
                 IF op[p] = "fetchStockData"
                 THEN result[p] = [kind |-> "object", error |-> TRUE, id |-> arg[p]]
                 ELSE IF op[p] = "fetchInstitutionalInvestors"
                 THEN result[p] = [kind |-> "object", apiStatus |-> "nodata"]
                 ELSE result[p] = [kind |-> "object", status |-> "nodata"]
            /\ "data" \in failed[p] =>
                 IF op[p] = "fetchStockData"
                 THEN result[p] = [kind |-> "object", error |-> TRUE, id |-> arg[p]]
                 ELSE IF op[p] = "fetchInstitutionalInvestors"
                 THEN result[p] = [kind |-> "object", apiStatus |-> "error"]
                 ELSE result[p] = [kind |-> "object", status |-> "error"]

\* fetchStockData has answered an empty price array with its error flag
C7_Witness ==
    \E p \in Slots :
        /\ Done(p, "fetchStockData")
        /\ held[p] = DataBody(<<>>)
        /\ failed[p] = {}
        /\ HasStatus(result[p], "error", TRUE)

\* C8 as stated: after a failure of any HTTP call of an operation, the list
\* request included, the operation resolves to a value with an error flag
\* or an error / no-data status (null is let pass as such a value here)
C8_Original ==
    \A p \in Slots :
        (pc[p] = "done" /\ failed[p] # {}) =>
            /\ result[p].kind # "rejected"
            /\ \/ IsErrorValue(result[p])
               \/ IsNoDataStatus(result[p])
               \/ result[p] = NullResult

\* C8, amended: no operation rejects; a failure of a price, index,
\* institutional or valuation-ratio request gives the operation's error
\* value; a failure of the list request alone is absorbed, the list counting
\* as empty: resolveStockId gives null, fetchStockName the identifier
\* itself, and fetchStockData still succeeds, with the identifier as name
C8_NeverRejects ==
    \A p \in Slots :
        pc[p] = "done" =>
            /\ result[p].kind # "rejected"
            /\ "data" \in failed[p] => IsErrorValue(result[p])
            /\ failed[p] = {"list"} =>
                 /\ op[p] = "resolveStockId" => result[p] = NullResult
                 /\ op[p] = "fetchStockName" => result[p] = StringResult(arg[p])
                 /\ (op[p] = "fetchStockData" /\ ~IsErrorValue(result[p]))
                        => (Succeeded(p) /\ result[p].name = arg[p])

\* fetchStockData has succeeded although its list request failed
C8_Witness ==
    \E p \in Slots :
        /\ Done(p, "fetchStockData")
        /\ failed[p] = {"list"}
        /\ Succeeded(p)
        /\ result[p].name = arg[p]

---------------------------------------------------------------------------
(* Claims about the stock-list cache, checked under SpecCache *)

\* C9: over any interleaving of lookups the list is fetched and assigned
\* to the cache at most once
C9_PopulatedOnce == assigns <= 1

\* C10: the cache is never invalidated: once populated no step replaces it,
\* a getStockList call that starts then returns the cached list without a
\* request, and a list request that fails or brings no data field leaves
\* the cache as it was
C10_NeverInvalidated ==
    [][/\ stockListCache # Null => stockListCache' = stockListCache
       /\ \A p \in Slots :
              (stockListCache # Null /\ lpc[p] = "none" /\ lpc'[p] # "none")
                  => (lpc'[p] = "ret" /\ list'[p] = stockListCache[1]
                      /\ nfetch'[p] = 0)
       /\ assigns' = assigns => stockListCache' = stockListCache]_vars

---------------------------------------------------------------------------
(* The App component, part_001, and getGeminiAnalysis, part_002.

   A run of handleSearch or refreshMarket is modelled like a call of the
   data provider: one action per run of the event loop between two awaits.
   The calls a handler awaits are those of the model above; here each is
   one step of the environment that settles the awaited promise with one
   of the values the operation can resolve to.  Only the stock-list cache
   is shared with the model above: its slots stay idle and its history
   variables are not kept.  The text of the search box (searchQuery) is
   an input of handleSearch. *)

\* the messages of setSearchError, part_001:114, 124 and 143
NotFoundMessage == "not found"
FetchFailedMessage == "fetch failed"
AiErrorMessage == "ai error"

\* part_001:16
DEFAULT_HOT_IDS ==
    {<<"2", "3", "3", "0">>, <<"2", "3", "1", "7">>, <<"2", "4", "5", "4">>,
     <<"2", "6", "0", "3">>, <<"2", "8", "8", "1">>, <<"0", "0", "5", "0">>}

\* part_001:140, slice(0, 3)
HistoryLimit == 3

\* o[f] of a JavaScript object: <<>> when the property is missing
Field(o, f) == IF f \in DOMAIN o THEN Some(o[f]) ELSE Null

\* !s.error, data.error
HasErrorFlag_Never(o) == FALSE
HasErrorFlag(o) == "error" \in DOMAIN o /\ o.error = TRUE

refreshVars == <<marketIndex, fundFlow, hotStocks, connectionStatus, rpc,
                 rnames, rfailed>>
resultVars == <<searchHistory, selectedStock, analysis>>
localVars == <<squery, sstockId, sdata, sinst, sname>>

---------------------------------------------------------------------------
(* getGeminiAnalysis, part_002:5-82 *)

\* how ai.models.generateContent settles: a rejection, or a response with
\* a text
AiRejection == [kind |-> "reject", text |-> ""]
AiResponse(text) == [kind |-> "response", text |-> text]

\* JSON.parse on the texts of the model; any other text is a SyntaxError
JsonParse(text) ==
    IF text = "{}" THEN [kind |-> "object"]
    ELSE IF text = "null" THEN NullResult
    ELSE IF text = "{\"score\":40}" THEN [kind |-> "object", score |-> 40]
    ELSE IF text = "{\"score\":90}" THEN [kind |-> "object", score |-> 90]
    ELSE Rejected

\* what the promise of getGeminiAnalysis settles with: the catch block
\* logs and throws again, part_002:78-81
GeminiAnalysis_Swallow(outcome) == [kind |-> "object"]
GeminiAnalysis(outcome) ==
    IF outcome.kind = "reject" THEN Rejected
    ELSE JsonParse(IF outcome.text = "" THEN "{}" ELSE outcome.text)

AiOutcomes ==
    {AiRejection} \cup
    {AiResponse(t) : t \in {"", "<html>", "null", "{\"score\":40}",
                            "{\"score\":90}"}}

---------------------------------------------------------------------------
(* What the awaited data-provider calls resolve to *)

\* fetchStockData, finmind.ts:139-174: the error flag, or the derived object
StockDataResults(stockId, name, series, pers) ==
    {ErrorFlag(stockId)} \cup
    {StockDataValue(stockId, name, h, per) :
        h \in {x \in series : Len(x) > 0}, per \in pers}

\* fetchStockInstitutionalData, finmind.ts:115-137
StockInstitutionalResults(series) ==
    {ErrorValue("fetchStockInstitutionalData", <<>>),
     NoDataValue("fetchStockInstitutionalData", <<>>)} \cup
    {StockInstitutionalValue(d) : d \in {x \in series : Len(x) > 0}}

\* fetchMarketIndex, finmind.ts:61-88
MarketIndexResults(series) ==
    {ErrorValue("fetchMarketIndex", <<>>),
     NoDataValue("fetchMarketIndex", <<>>)} \cup
    {MarketIndexValue(d) : d \in {x \in series : Len(x) > 0}}

\* fetchInstitutionalInvestors, finmind.ts:90-113
FundFlowResults(series) ==
    {ErrorValue("fetchInstitutionalInvestors", <<>>),
     NoDataValue("fetchInstitutionalInvestors", <<>>)} \cup
    {FundFlowValue(d) : d \in {x \in series : Len(x) > 0}}

\* getStockList after its request: json.data, else []
ListOf(body) == IF body.kind = "data" THEN body.data ELSE <<>>

\* getStockList after its request: json.data, when there, becomes the cache
CacheAfter(body) ==
    IF body.kind = "data" THEN Some(body.data) ELSE stockListCache

---------------------------------------------------------------------------
(* handleSearch, part_001:104-148 *)

Log(r, ev) == trace' = [trace EXCEPT ![r] = Append(@, ev)]

\* a run takes the lowest free slot
FreeRun(r) == spc[r] = "idle" /\ \A q \in Runs : q < r => spc[q] # "idle"

\* the continuation of an await on a promise that is already settled is a
\* microtask: it runs before any other event is handled
NoMicrotask == \A r \in Runs : spc[r] # "resolved"

\* the calls of run r that have failed when it ends with ev
FailedCalls(r, ev) ==
    (IF ev = "not found" THEN {"resolveStockId"} ELSE {}) \cup
    (IF ev = "data error" THEN {"fetchStockData"} ELSE {}) \cup
    (IF IsErrorValue(sinst[r]) THEN {"fetchStockInstitutionalData"} ELSE {})
    \cup (IF ev = "caught" THEN {"getGeminiAnalysis"} ELSE {})

\* the run is over: the finally block, part_001:145-147
EndRun(r, ev) ==
    /\ isLoading' = FALSE
    /\ spc' = [spc EXCEPT ![r] = "idle"]
    /\ squery' = [squery EXCEPT ![r] = <<>>]
    /\ sdata' = [sdata EXCEPT ![r] = Pending]
    /\ sinst' = [sinst EXCEPT ![r] = Pending]
    /\ sname' = [sname EXCEPT ![r] = Pending]
    /\ trace' = [trace EXCEPT ![r] = <<>>]
    /\ sstockId' = [sstockId EXCEPT ![r] = Pending]
    /\ newest' = IF newest = r THEN 0 ELSE newest
    /\ newestOk' = IF newest = r /\ ev = "detail"
                   THEN Some(sstockId[r].val) ELSE newestOk
    /\ lastStep' = <<"handleSearch", ev, FailedCalls(r, ev)>>

\* the catch block, part_001:142-144, then finally
SearchCaught_NoView(r) ==
    /\ searchError' = AiErrorMessage
    /\ EndRun(r, "caught")
    /\ UNCHANGED <<view, resultVars>>
SearchCaught(r) ==
    /\ searchError' = AiErrorMessage
    /\ view' = "home"
    /\ EndRun(r, "caught")
    /\ UNCHANGED resultVars

\* the handler up to await resolveStockId(query), part_001:104-111, with
\* resolveStockId up to its own first await, finmind.ts:34-42.  The search
\* box and the stock buttons are rendered in the home view only.
HandleSearch(r, query) ==
    /\ view = "home"
    /\ NoMicrotask
    /\ FreeRun(r)
    /\ IF query = <<>>
       THEN UNCHANGED vars
       ELSE LET trimmed == Trim(query)
            IN  /\ isLoading' = TRUE
                /\ searchError' = ""
                /\ squery' = [squery EXCEPT ![r] = query]
                /\ IF trimmed = <<>>
                   THEN /\ sstockId' = [sstockId EXCEPT ![r] = NullResult]
                        /\ spc' = [spc EXCEPT ![r] = "resolved"]
                   ELSE IF IsDigits(trimmed)
                   THEN /\ sstockId' = [sstockId EXCEPT
                                           ![r] = StringResult(trimmed)]
                        /\ spc' = [spc EXCEPT ![r] = "resolved"]
                   ELSE IF stockListCache # Null
                   THEN /\ sstockId' = [sstockId EXCEPT ![r] =
                               ResolveInList(stockListCache[1], trimmed)]
                        /\ spc' = [spc EXCEPT ![r] = "resolved"]
                   ELSE /\ sstockId' = [sstockId EXCEPT ![r] = Pending]
                        /\ spc' = [spc EXCEPT ![r] = "list"]
                /\ trace' = [trace EXCEPT ![r] = <<"resolveStockId">>]
                /\ newest' = r
                /\ newestOk' = Null
                /\ lastStep' = NoEnd
                /\ UNCHANGED <<view, sdata, sinst, sname>>
                /\ UNCHANGED <<resultVars, refreshVars, abandoned, dataVars>>

\* the list request of resolveStockId settles, finmind.ts:19-28, and
\* resolveStockId runs its two finds, finmind.ts:44-49
SearchListSettles(r, bodies) ==
    /\ spc[r] = "list"
    /\ NoMicrotask
    /\ \E body \in bodies :
        /\ stockListCache' = CacheAfter(body)
        /\ sstockId' = [sstockId EXCEPT ![r] =
                            ResolveInList(ListOf(body), Trim(squery[r]))]
    /\ spc' = [spc EXCEPT ![r] = "resolved"]
    /\ lastStep' = NoEnd
    /\ UNCHANGED <<view, isLoading, searchError, squery, sdata, sinst,
                   sname, trace, newest, newestOk>>
    /\ UNCHANGED <<resultVars, refreshVars, abandoned, slotVars, assigns>>

\* after await resolveStockId(query), part_001:113-122, with fetchStockData
\* up to its first await: fetchStockName reads the cache, finmind.ts:56
SearchResolved(r) ==
    /\ spc[r] = "resolved"
    /\ IF sstockId[r].val = <<>>
       THEN /\ searchError' = NotFoundMessage
            /\ EndRun(r, "not found")
            /\ UNCHANGED view
       ELSE /\ view' = "loading"
            /\ spc' = [spc EXCEPT ![r] = "data"]
            /\ sname' = [sname EXCEPT ![r] =
                   IF stockListCache # Null
                   THEN NameInList(stockListCache[1], sstockId[r].val)
                   ELSE Pending]
            /\ Log(r, "fetchStockData")
            /\ lastStep' = NoEnd
            /\ UNCHANGED <<isLoading, searchError, squery, sstockId,
                           sdata, sinst, newest, newestOk>>
    /\ UNCHANGED <<resultVars, refreshVars, abandoned, dataVars>>

\* the list request of fetchStockName settles, finmind.ts:19-28 and 57-58
SearchNameSettles(r, bodies) ==
    /\ spc[r] = "data" /\ sname[r] = Pending
    /\ NoMicrotask
    /\ \E body \in bodies :
        /\ stockListCache' = CacheAfter(body)
        /\ sname' = [sname EXCEPT ![r] =
                        NameInList(ListOf(body), sstockId[r].val)]
    /\ lastStep' = NoEnd
    /\ UNCHANGED <<view, isLoading, searchError, spc, squery, sstockId,
                   sdata, sinst, trace, newest, newestOk>>
    /\ UNCHANGED <<resultVars, refreshVars, abandoned, slotVars, assigns>>

\* after await fetchStockData(stockId), part_001:123-129.  The Promise.all
\* of finmind.ts:142-145 waits for the price response and the name; when
\* the price request is rejected it rejects at once, fetchStockData
\* resolves to the error flag and the list request of fetchStockName, if
\* still in flight, goes on without it.
SearchDataSettles(r, series, pers) ==
    /\ spc[r] = "data"
    /\ NoMicrotask
    /\ \E data \in (IF sname[r] = Pending THEN {ErrorFlag(sstockId[r].val)}
                    ELSE StockDataResults(sstockId[r].val, sname[r].val,
                                          series, pers)) :
        IF data = Rejected
        THEN SearchCaught(r)
        ELSE IF HasErrorFlag(data)
        THEN /\ searchError' = FetchFailedMessage
             /\ view' = "home"
             /\ EndRun(r, "data error")
             /\ UNCHANGED resultVars
        ELSE /\ sdata' = [sdata EXCEPT ![r] = data]
             /\ spc' = [spc EXCEPT ![r] = "inst"]
             /\ Log(r, "fetchStockInstitutionalData")
             /\ lastStep' = NoEnd
             /\ UNCHANGED <<view, isLoading, searchError, squery, sstockId,
                            sinst, sname, newest, newestOk>>
             /\ UNCHANGED resultVars
    /\ abandoned' = IF sname[r] = Pending THEN abandoned + 1 ELSE abandoned
    /\ UNCHANGED <<refreshVars, dataVars>>

\* after await fetchStockInstitutionalData(stockId), part_001:129-130, with
\* getGeminiAnalysis up to its request, part_002:5-31
SearchInstSettles(r, results) ==
    /\ spc[r] = "inst"
    /\ NoMicrotask
    /\ \E inst \in results :
        IF inst = Rejected
        THEN SearchCaught(r)
        ELSE /\ sinst' = [sinst EXCEPT ![r] = inst]
             /\ spc' = [spc EXCEPT ![r] = "ai"]
             /\ Log(r, "getGeminiAnalysis")
             /\ lastStep' = NoEnd
             /\ UNCHANGED <<view, isLoading, searchError, squery, sstockId,
                            sdata, sname, newest, newestOk>>
             /\ UNCHANGED resultVars
    /\ UNCHANGED <<refreshVars, abandoned, dataVars>>

\* [fullData, ...prev.filter(s => s.id !== stockId)].slice(0, 3)
HistoryWith_NoFilter(prev, fullData, stockId) ==
    SubSeq(<<fullData>> \o prev, 1,
           IF Len(prev) + 1 < HistoryLimit THEN Len(prev) + 1
           ELSE HistoryLimit)
HistoryWith(prev, fullData, stockId) ==
    LET kept == SelectSeq(prev, LAMBDA e : e.id # stockId)
        all == <<fullData>> \o kept
    IN  SubSeq(all, 1, IF Len(all) < HistoryLimit THEN Len(all)
                       ELSE HistoryLimit)

\* x > 0 of a Number: true of Infinity, false of NaN and of -Infinity
Positive(x) == IF x.kind = "finite" THEN x.val > 0 ELSE x = Infinity

\* { ...data, score: report.score, trend: ... }, part_001:132-136
FullData_NoScore(data, report) ==
    [score |-> Null,
     trend |-> IF Positive(data.pct) THEN "bullish" ELSE "bearish"] @@ data
FullData(data, report) ==
    [score |-> Field(report, "score"),
     trend |-> IF Positive(data.pct) THEN "bullish" ELSE "bearish"] @@ data

\* after await getGeminiAnalysis(data, inst), part_001:130-141; reading
\* report.score of null throws
SearchAiSettles(r, outcomes) ==
    /\ spc[r] = "ai"
    /\ NoMicrotask
    /\ \E outcome \in outcomes :
        LET report == GeminiAnalysis(outcome)
        IN  IF report = Rejected \/ report = NullResult
            THEN SearchCaught(r)
            ELSE LET fullData == FullData(sdata[r], report)
                 IN  /\ selectedStock' = Some(fullData)
                     /\ analysis' = Some(report)
                     /\ searchHistory' = HistoryWith(searchHistory, fullData,
                                                     sstockId[r].val)
                     /\ view' = "detail"
                     /\ EndRun(r, "detail")
                     /\ UNCHANGED searchError
    /\ UNCHANGED <<refreshVars, abandoned, dataVars>>

\* the back button of the detail view, part_001:181-186
Back ==
    /\ view = "detail"
    /\ NoMicrotask
    /\ view' = "home"
    /\ lastStep' = NoEnd
    /\ UNCHANGED <<isLoading, searchError, spc, trace, newest, newestOk>>
    /\ UNCHANGED <<localVars, resultVars, refreshVars, abandoned, dataVars>>

---------------------------------------------------------------------------
(* refreshMarket, part_001:81-98 *)

searchVars == <<view, isLoading, searchError, spc, trace, newest,
                newestOk>>

\* the handler up to its first await; the button is in the navigation bar,
\* which the loading view does not render, part_001:162-174 and 201
RefreshMarket(k) ==
    /\ view # "loading"
    /\ NoMicrotask
    /\ rpc[k] = "idle" /\ \A j \in Refreshes : j < k => rpc[j] # "idle"
    /\ isLoading' = TRUE
    /\ connectionStatus' = "loading"
    /\ rpc' = [rpc EXCEPT ![k] = "market"]
    /\ rfailed' = [rfailed EXCEPT ![k] = {}]
    /\ lastStep' = NoEnd
    /\ UNCHANGED <<view, searchError, spc, trace, newest, newestOk, marketIndex,
                   fundFlow, hotStocks, rnames, abandoned>>
    /\ UNCHANGED <<localVars, resultVars, dataVars>>

\* the catch block, part_001:93-94, then finally
RefreshCaught(k) ==
    /\ connectionStatus' = "error"
    /\ isLoading' = FALSE
    /\ rpc' = [rpc EXCEPT ![k] = "idle"]
    /\ lastStep' = <<"refreshMarket", "caught", rfailed[k]>>

\* which of the two calls resolved to an error value
MarketFailures(idx, flow) ==
    {c \in {"fetchMarketIndex", "fetchInstitutionalInvestors"} :
        IsErrorValue(IF c = "fetchMarketIndex" THEN idx ELSE flow)}

\* after the first Promise.all, part_001:85-90: the six fetchStockData
\* calls start, and fetchStockName in each reads the cache or sends a list
\* request of its own, finmind.ts:17-18 and 142-145
RefreshMarketSettles(k, indexes, flows) ==
    /\ rpc[k] = "market"
    /\ NoMicrotask
    /\ \E idx \in indexes, flow \in flows :
        IF Rejected \in {idx, flow}
        THEN /\ RefreshCaught(k)
             /\ UNCHANGED <<marketIndex, fundFlow, rnames, rfailed>>
        ELSE /\ marketIndex' = Some(idx)
             /\ fundFlow' = Some(flow)
             /\ rpc' = [rpc EXCEPT ![k] = "stocks"]
             /\ rnames' = [rnames EXCEPT ![k] =
                    [id \in DEFAULT_HOT_IDS |->
                        IF stockListCache # Null
                        THEN NameInList(stockListCache[1], id)
                        ELSE Pending]]
             /\ rfailed' = [rfailed EXCEPT ![k] = MarketFailures(idx, flow)]
             /\ lastStep' = NoEnd
             /\ UNCHANGED <<isLoading, connectionStatus>>
    /\ UNCHANGED <<view, searchError, spc, trace, newest, newestOk, hotStocks,
                   abandoned>>
    /\ UNCHANGED <<localVars, resultVars, dataVars>>

\* the list request of the fetchStockData call for id settles,
\* finmind.ts:19-28 and 57-58
RefreshListSettles(k, id, bodies) ==
    /\ rpc[k] = "stocks" /\ rnames[k][id] = Pending
    /\ NoMicrotask
    /\ \E body \in bodies :
        /\ stockListCache' = CacheAfter(body)
        /\ rnames' = [rnames EXCEPT ![k][id] = NameInList(ListOf(body), id)]
    /\ lastStep' = NoEnd
    /\ UNCHANGED <<marketIndex, fundFlow, hotStocks, connectionStatus, rpc,
                   rfailed, abandoned>>
    /\ UNCHANGED <<searchVars, localVars, resultVars, slotVars, assigns>>

\* the array the second Promise.all resolves to: the error flag for the
\* identifiers in bad, else the object derived from the price rows and the
\* PER rows received for the identifier, under the name found for it
HotStockResults(bad, names, rows, perRows) ==
    [id \in DEFAULT_HOT_IDS |->
        IF id \in bad THEN ErrorFlag(id)
        ELSE StockDataValue(id, names[id].val, rows[id], perRows[id])]

\* after the second Promise.all, part_001:90-92, then finally.  A call
\* whose price request is rejected resolves to the error flag without
\* waiting for its list request, finmind.ts:142-145 and 171-172: the calls
\* still waiting for the list are among those that fail.
RefreshStocksSettle(k, failures, series, pers) ==
    /\ rpc[k] = "stocks"
    /\ NoMicrotask
    /\ LET waiting == {id \in DEFAULT_HOT_IDS : rnames[k][id] = Pending}
       IN  /\ \E bad \in failures,
                 rows \in [DEFAULT_HOT_IDS -> {h \in series : Len(h) > 0}],
                 perRows \in [DEFAULT_HOT_IDS -> pers] :
                /\ waiting \subseteq bad
                /\ LET stocks == HotStockResults(bad, rnames[k], rows, perRows)
                   IN  IF \E id \in DEFAULT_HOT_IDS : stocks[id] = Rejected
                       THEN /\ RefreshCaught(k)
                            /\ UNCHANGED <<hotStocks, rfailed>>
                       ELSE /\ hotStocks' = {stocks[id] : id \in
                                    {i \in DEFAULT_HOT_IDS :
                                        ~HasErrorFlag(stocks[i])}}
                            /\ connectionStatus' = "connected"
                            /\ isLoading' = FALSE
                            /\ rpc' = [rpc EXCEPT ![k] = "idle"]
                            /\ rfailed' = [rfailed EXCEPT ![k] = @ \cup
                                   IF bad # {} THEN {"fetchStockData"} ELSE {}]
                            /\ lastStep' = <<"refreshMarket", "done", rfailed'[k]>>
           /\ abandoned' = abandoned + Cardinality(waiting)
    /\ rnames' = [rnames EXCEPT ![k] = <<>>]
    /\ UNCHANGED <<view, searchError, spc, trace, newest, newestOk, marketIndex,
                   fundFlow>>
    /\ UNCHANGED <<localVars, resultVars, dataVars>>

\* a list request settles after the fetchStockData call that sent it has
\* resolved to the error flag, finmind.ts:19-23: json.data still becomes
\* the cache
AbandonedListSettles(bodies) ==
    /\ abandoned > 0
    /\ NoMicrotask
    /\ \E body \in bodies : stockListCache' = CacheAfter(body)
    /\ abandoned' = abandoned - 1
    /\ lastStep' = NoEnd
    /\ UNCHANGED <<refreshVars, searchVars, localVars, resultVars, slotVars,
                   assigns>>

---------------------------------------------------------------------------
(* The component: searches, refreshes and the back button, overlapping *)

\* a list request fails, or delivers a list of one entry
AppListBodies ==
    {ParseError,
     DataBody(<<[stock_id |-> <<"b">>, stock_name |-> <<"a", "b">>]>>)}

\* the empty query, a numeric identifier, an identifier of the list, blanks
SearchQueries == {<<>>, <<"1">>, <<"b">>, <<" ">>}

HotSeries == <<[close |-> 10000], [close |-> 10500]>>

\* a rise, a rise from a close of 0, whose percentage is Infinity, and two
\* closes of 0, whose percentage is NaN
SearchSeries == {HotSeries, <<[close |-> 0], [close |-> 3]>>,
                 <<[close |-> 0], [close |-> 0]>>}
FewAiOutcomes ==
    {AiRejection, AiResponse(""), AiResponse("<html>"), AiResponse("null"),
     AiResponse("{\"score\":40}")}

\* with refreshes in the interleaving: fewer queries and answers (the
\* empty query and a name of the list), a list that names a hot stock too,
\* and a hot stock whose call may fail
AppQueries == {<<>>, <<"b">>}
AppAiOutcomes == {AiRejection, AiResponse(""), AiResponse("{\"score\":40}")}
HotListBodies ==
    {ParseError,
     DataBody(<<[stock_id |-> <<"b">>, stock_name |-> <<"a", "b">>],
                [stock_id |-> <<"2", "3", "3", "0">>,
                 stock_name |-> <<"a">>]>>)}
HotFailures == {{}, {<<"2", "3", "3", "0">>}}

\* the list requests no call waits for are counted up to a bound
WithinBounds == abandoned' <= MaxAbandoned

\* what a refreshMarket run does after its first await
RefreshStep(k) ==
    \/ RefreshMarketSettles(k, {MarketIndexValue(HotSeries)},
                            {ErrorValue("fetchInstitutionalInvestors", <<>>)})
    \/ \E id \in DEFAULT_HOT_IDS : RefreshListSettles(k, id, HotListBodies)
    \/ RefreshStocksSettle(k, HotFailures, {HotSeries}, {<<>>}) /\ WithinBounds

\* a name is resolved from the list, which is then in the cache when
\* fetchStockData asks for the name of the stock: these searches have no
\* name request of their own to wait for
NextApp ==
    \/ \E r \in Runs, q \in AppQueries : HandleSearch(r, q)
    \/ \E r \in Runs : SearchListSettles(r, HotListBodies)
    \/ \E r \in Runs : SearchResolved(r)
    \/ \E r \in Runs : SearchDataSettles(r, {HotSeries}, {<<>>}) /\ WithinBounds
    \/ \E r \in Runs :
          SearchInstSettles(r, {NoDataValue("fetchStockInstitutionalData", <<>>)})
    \/ \E r \in Runs : SearchAiSettles(r, AppAiOutcomes)
    \/ Back
    \/ \E k \in Refreshes : RefreshMarket(k)
    \/ \E k \in Refreshes : RefreshStep(k)
    \/ AbandonedListSettles(HotListBodies)

SpecApp == Init /\ [][NextApp]_vars

---------------------------------------------------------------------------
(* The component with one search at a time: an identifier and blanks are
   resolved without the list, so the view leaves "home" before another
   search can start.  Every external call settles in the end, and the event
   loop runs every continuation that is due: a settled call may find a
   microtask ahead of it, but not for ever. *)

FairQueries == {<<"1">>, <<" ">>}

\* what a handleSearch run does after its first await
SearchStep(r) ==
    \/ SearchResolved(r)
    \/ SearchNameSettles(r, HotListBodies)
    \/ SearchDataSettles(r, {HotSeries}, {<<>>}) /\ WithinBounds
    \/ SearchInstSettles(r, {NoDataValue("fetchStockInstitutionalData", <<>>)})
    \/ SearchAiSettles(r, AppAiOutcomes)

NextFair ==
    \/ \E r \in Runs, q \in FairQueries : HandleSearch(r, q)
    \/ \E r \in Runs : SearchStep(r)
    \/ Back
    \/ \E k \in Refreshes : RefreshMarket(k)
    \/ \E k \in Refreshes : RefreshStep(k)
    \/ AbandonedListSettles(HotListBodies)

FairApp ==
    /\ \A r \in Runs : SF_vars(SearchStep(r))
    /\ \A k \in Refreshes : SF_vars(RefreshStep(k))

SpecAppFair == Init /\ [][NextFair]_vars /\ FairApp

---------------------------------------------------------------------------
(* Searches and the back button alone: the refresh of the mount is still
   awaiting its first two calls *)

NextSearch ==
    \/ \E r \in Runs, q \in SearchQueries : HandleSearch(r, q)
    \/ \E r \in Runs : SearchListSettles(r, AppListBodies)
    \/ \E r \in Runs : SearchResolved(r)
    \/ \E r \in Runs : SearchNameSettles(r, AppListBodies)
    \/ \E r \in Runs :
          SearchDataSettles(r, SearchSeries, {<<>>}) /\ WithinBounds
    \/ \E r \in Runs : SearchInstSettles(r, StockInstitutionalResults({}))
    \/ \E r \in Runs : SearchAiSettles(r, FewAiOutcomes)
    \/ Back
    \/ AbandonedListSettles(AppListBodies)

SpecSearch == Init /\ [][NextSearch]_vars

---------------------------------------------------------------------------
(* Claims about handleSearch, checked under SpecApp *)

\* the calls of one handleSearch run, in the order of the code
CallOrder == <<"resolveStockId", "fetchStockData",
               "fetchStockInstitutionalData", "getGeminiAnalysis">>

Issued(r, call) == \E i \in 1..Len(trace[r]) : trace[r][i] = call

\* C11: within one handleSearch run the calls are issued in order: the
\* stock-data fetch only after identifier resolution returned a non-null
\* identifier, the institutional-data fetch only after the stock-data fetch
\* resolved without the error flag, the AI request only after the
\* institutional-data fetch resolved; none is issued after stock data that
\* carries the error flag
C11_CallsInOrder ==
    \A r \in Runs :
        /\ trace[r] = SubSeq(CallOrder, 1, Len(trace[r]))
        /\ Issued(r, "fetchStockData")
              => (sstockId[r].kind = "string" /\ sstockId[r].val # <<>>)
        /\ Issued(r, "fetchStockInstitutionalData")
              => (HasStatus(sdata[r], "status", "success")
                  /\ ~HasStatus(sdata[r], "error", TRUE)
                  /\ sdata[r].id = sstockId[r].val)
        /\ Issued(r, "getGeminiAnalysis")
              => (sinst[r] # Pending /\ sinst[r] # Rejected
                  /\ ~HasStatus(sdata[r], "error", TRUE))
        /\ ~Issued(r, "fetchStockInstitutionalData") => sdata[r] = Pending
        /\ ~Issued(r, "getGeminiAnalysis") => sinst[r] = Pending

\* a run has issued all four calls and awaits the AI analysis
C11_Witness ==
    \E r \in Runs :
        /\ spc[r] = "ai"
        /\ trace[r] = CallOrder
        /\ sstockId[r].val = <<"b">>

\* the search run that ended in the last step, if one did
SearchEnded == lastStep[1] = "handleSearch"

NoSearchInFlight == \A r \in Runs : spc[r] = "idle"

\* C12: a failure of any call of handleSearch aborts the search: no later
\* call is issued, the detail view is not entered for that search, and the
\* run ends on the home view with a non-empty error message (stated for a
\* run that ends while no other search is in flight)
C12_FailureAborts ==
    /\ \A r \in Runs :
          IsErrorValue(sinst[r]) => ~Issued(r, "getGeminiAnalysis")
    /\ (SearchEnded /\ lastStep[3] # {} /\ NoSearchInFlight)
          => (lastStep[2] # "detail" /\ view = "home" /\ searchError # "")

---------------------------------------------------------------------------
(* Claims about refreshMarket *)

RefreshEnded == lastStep[1] = "refreshMarket"

\* C13: a failure of any network call of refreshMarket aborts the refresh
\* and surfaces the error state: the run ends with connectionStatus
\* "error", and connectionStatus becomes "connected" only when none of the
\* calls failed
C13_FailureSurfaces ==
    RefreshEnded =>
        /\ lastStep[3] # {} => connectionStatus = "error"
        /\ connectionStatus = "connected" => lastStep[3] = {}

---------------------------------------------------------------------------
(* Claims about the failure of the AI call *)

\* C14: a failure of the generative-AI call (the request is rejected, or
\* the response is not parseable as JSON) is thrown again by
\* getGeminiAnalysis, not converted to a value; handleSearch then ends with
\* the static error message set, the view on home, not on detail, and
\* isLoading false
C14_AiFailureRethrown ==
    /\ \A o \in AiOutcomes :
          (o.kind = "reject" \/ o.text = "<html>")
              => GeminiAnalysis(o) = Rejected
    /\ (SearchEnded /\ "getGeminiAnalysis" \in lastStep[3])
          => (/\ lastStep[2] = "caught"
              /\ searchError = AiErrorMessage
              /\ view = "home"
              /\ isLoading = FALSE)

\* a run has just ended in the catch block after its AI call failed
C14_Witness ==
    /\ SearchEnded
    /\ lastStep[2] = "caught"
    /\ lastStep[3] = {"getGeminiAnalysis"}
    /\ searchError = AiErrorMessage
    /\ selectedStock = Null

---------------------------------------------------------------------------
(* Searches alone, with enough stocks to fill the search history: the
   refresh of the mount is still awaiting its first two calls *)

HistoryQueries == {<<"1">>, <<"2">>, <<"3">>, <<"b">>}
HistoryAiOutcomes == {AiRejection, AiResponse("{\"score\":40}")}

NextHistory ==
    \/ \E r \in Runs, q \in HistoryQueries : HandleSearch(r, q)
    \/ \E r \in Runs : SearchListSettles(r, AppListBodies)
    \/ \E r \in Runs : SearchResolved(r)
    \/ \E r \in Runs : SearchNameSettles(r, AppListBodies)
    \/ \E r \in Runs :
          SearchDataSettles(r, {HotSeries}, {<<>>}) /\ WithinBounds
    \/ \E r \in Runs :
          SearchInstSettles(r, {NoDataValue("fetchStockInstitutionalData",
                                            <<>>)})
    \/ \E r \in Runs : SearchAiSettles(r, HistoryAiOutcomes)
    \/ Back
    \/ AbandonedListSettles(AppListBodies)

SpecHistory == Init /\ [][NextHistory]_vars

Ids(h) == {h[i].id : i \in 1..Len(h)}

\* C15: after any sequence of searches, overlapping ones included,
\* searchHistory holds at most 3 entries, no two of them share an
\* identifier, and the entry of the search that succeeded last is first; a
\* search that fails leaves searchHistory unchanged
C15_HistoryBounded ==
    [][/\ Len(searchHistory') <= HistoryLimit
       /\ Cardinality(Ids(searchHistory')) = Len(searchHistory')
       /\ (SearchEnded' /\ lastStep'[2] = "detail")
             => (/\ searchHistory' # <<>>
                 /\ searchHistory'[1] = selectedStock'[1]
                 /\ \E r \in Runs : /\ spc[r] = "ai" /\ spc'[r] = "idle"
                                    /\ searchHistory'[1].id = sstockId[r].val
                 /\ \A i \in 2..Len(searchHistory') :
                        \E j \in 1..Len(searchHistory) :
                            searchHistory'[i] = searchHistory[j])
       /\ ~(SearchEnded' /\ lastStep'[2] = "detail")
             => searchHistory' = searchHistory]_vars

\* the history is full, and the search that has just succeeded, whose
\* identifier came from the stock list, is first
C15_Witness ==
    /\ Len(searchHistory) = HistoryLimit
    /\ SearchEnded /\ lastStep[2] = "detail"
    /\ searchHistory[1].id = <<"b">>
    /\ Ids(searchHistory) = {<<"b">>, <<"3">>, <<"1">>}

---------------------------------------------------------------------------
(* Claims about the component under overlapping runs, checked under
   SpecApp *)

\* C16: in every reachable state, view = "detail" implies that
\* selectedStock and analysis are both non-null and belong to the same
\* search: selectedStock.score equals analysis.score
C16_DetailConsistent ==
    view = "detail" =>
        /\ selectedStock # Null
        /\ analysis # Null
        /\ selectedStock[1].score = Field(analysis[1], "score")
        /\ searchHistory # <<>>
        /\ searchHistory[1] = selectedStock[1]

\* the detail view shows a scored report while another search and a
\* refresh are still in flight
C16_Witness ==
    /\ view = "detail"
    /\ analysis # Null /\ Field(analysis[1], "score") = Some(40)
    /\ \E r \in Runs : spc[r] # "idle"
    /\ \E k \in Refreshes : rpc[k] = "stocks"

NoRefreshInFlight == \A k \in Refreshes : rpc[k] = "idle"

\* C17: when every external call settles in the end, every handleSearch
\* run terminates, and once no search and no refresh is in flight the view
\* is "home" or "detail", not "loading", and isLoading is false, on the
\* early returns too
C17_Terminates ==
    /\ \A r \in Runs : (spc[r] # "idle") ~> (spc[r] = "idle")
    /\ []((NoSearchInFlight /\ NoRefreshInFlight)
             => (view \in {"home", "detail"} /\ isLoading = FALSE))

\* nothing is in flight after a search that returned early on the error
\* flag of its stock data
C17_Witness ==
    /\ NoSearchInFlight /\ NoRefreshInFlight
    /\ SearchEnded /\ lastStep[2] = "data error"
    /\ view = "home" /\ isLoading = FALSE

\* C18: isLoading is true in every state in which a refreshMarket run or
\* a handleSearch run is still in flight, overlapping runs included: the
\* end of one run does not clear the flag while another run awaits a call
C18_LoadingWhileInFlight ==
    (~NoSearchInFlight \/ ~NoRefreshInFlight) => isLoading = TRUE

\* C19: when handleSearch runs overlap and have all completed, the one
\* started last and the one that ended last both with success, the
\* selected stock and the head of searchHistory are those of the search
\* started last, in whichever order the calls of the runs settled
C19_NewestWins ==
    (/\ NoSearchInFlight
     /\ newestOk # Null
     /\ SearchEnded /\ lastStep[2] = "detail")
        => /\ selectedStock # Null
           /\ selectedStock[1].id = newestOk[1]
           /\ searchHistory # <<>>
           /\ searchHistory[1].id = newestOk[1]

===========================================================================
